---- MODULE Spec2Model ----
(***************************************************************************)
(* Tile acquisition and worker dispatch of VectorTileSource                *)
(* (src/src/source/vector_tile_source.js) and the TileJSON metadata loader *)
(* (src/src/source/load_tilejson.js).                                      *)
(*                                                                         *)
(* Spec       : the tile protocol (loadTile / done / abortTile / unloadTile*)
(*              / afterUpdate, driven by the tile cache, the dispatcher,   *)
(*              the inline fetches and the workers' replies) on one tile.  *)
(* SpecShared : the same protocol on two tiles, which may share a URL.     *)
(* SpecMeta   : the metadata loader (options merged with a TileJSON).      *)
(* SpecSource : the source's metadata lifecycle (load, setUrl, setTiles,   *)
(*              onAdd, onRemove and the completions of its requests).      *)
(***************************************************************************)
EXTENDS Integers, Sequences, FiniteSets, TLC

\* Spec: the number of loadTile calls the tile cache makes on tile "a" (one
\* fresh callback per call).
MaxCalls == 3
\* SpecShared: the number of loadTile calls the tile cache makes on the two
\* tiles together (at least one on each, and no fewer on "a" than on "b").
MaxShared == 2
\* SpecMeta: the number of keys a source options object or a TileJSON defines.
MaxKeys == 2
\* SpecSource: the number of setUrl and setTiles calls made on the source.
MaxSets == 2

Tiles  == {"a", "b"}
Urls   == {"u", "v"}
Actors == {"w1", "w2"}
None   == "none"
CbIds  == 1 .. (MaxCalls + MaxShared)
NoCb   == 0

\* tile.request when absent (deleted), and the two kinds of cancelable the
\* source stores in it.
NoRequest == [kind |-> "none", cb |-> NoCb]
Handle(kind, cb) == [kind |-> kind, cb |-> cb]

VARIABLES
    tile,          \* per tile: state, actor, request, reloadCallback, aborted
    tileWorkers,   \* this._tileWorkers : url -> actor
    deduped,       \* this._deduped : url -> waiters of the in-flight fetch
    inflight,      \* worker requests sent with a callback and not yet answered
    ready,         \* this.dispatcher.ready
    url,           \* the final URL of each tile
    limit,         \* per tile: how many loadTile calls the cache may make
    calls,         \* per tile: how many loadTile calls the cache has made
    nextCb,        \* the next fresh callback the cache passes to loadTile
    owner,         \* per callback: the tile it was passed to loadTile for
    invoked,       \* per callback: the errors it has been invoked with, in order
    parked,        \* callbacks that loadTile stored in a pending reload slot
    fetches,       \* per tile: network fetches started for it (inline or by a worker)
    pendingAtAbort,\* per tile: callbacks of the requests in flight when it was aborted
    hist,          \* history: first loader and re-dispatch per tile, tiles of the batch
    options,       \* metadata loader: the source options
    fetchedJSON,   \* metadata loader: the TileJSON document the fetch returned
    tileJSONRequest, \* metadata loader: the pending request
    resolved,      \* metadata loader: what the callback received
    source         \* the VectorTileSource's metadata lifecycle (SpecSource)

tileVars == <<tile, tileWorkers, deduped, inflight, ready, url, limit, calls, nextCb, owner,
              invoked, parked, fetches, pendingAtAbort, hist>>
metaVars == <<options, fetchedJSON, tileJSONRequest, resolved, source>>
vars == <<tile, tileWorkers, deduped, inflight, ready, url, limit, calls, nextCb, owner,
          invoked, parked, fetches, pendingAtAbort, hist, options, fetchedJSON, tileJSONRequest,
          resolved, source>>

----------------------------------------------------------------------------
(* The state the handlers work on, as one record, so that a handler that   *)
(* calls another one (done -> loadTile) is the composition of the two.     *)
(* eff is the log of what one handler run did: messages sent, fetches      *)
(* started, handles cancelled, callbacks invoked, calls made on the tile.  *)

NoEff == [msgs |-> <<>>, fetches |-> <<>>, cancelled |-> <<>>, calls |-> <<>>,
          handed |-> <<>>, timing |-> {}, expiry |-> {}]

Cur == [tile |-> tile, tileWorkers |-> tileWorkers, deduped |-> deduped,
        inflight |-> inflight, invoked |-> invoked, parked |-> parked,
        fetches |-> fetches, eff |-> NoEff]

Msg(type, t, w, cb, pre) == [type |-> type, t |-> t, actor |-> w, cb |-> cb, pre |-> pre]

\* Actor.send(type, params, callback): the message goes to the worker; with a
\* callback, the request stays in flight until the reply or a cancel.
send(S, w, type, t, cb, pre) ==
    [S EXCEPT !.eff.msgs = Append(@, Msg(type, t, w, cb, pre)),
              !.inflight = IF cb = NoCb THEN @ ELSE @ \cup {Msg(type, t, w, cb, pre)},
              !.fetches[t] = IF type = "loadTile" /\ ~pre THEN @ + 1 ELSE @]

\* Mutant of request: every call starts its own fetch.
request_own_fetch(S, u, t, cb) ==
    [S EXCEPT !.eff.fetches = Append(@, u),
              !.fetches[t] = @ + 1,
              !.deduped[u] = Append(@, [cb |-> cb, t |-> t])]

\* DedupedRequest.request(key, ..., callback): the first waiter of a key starts
\* the fetch, every later one joins it.
request(S, u, t, cb) ==
    [S EXCEPT !.eff.fetches = IF S.deduped[u] = <<>> THEN Append(@, u) ELSE @,
              !.fetches[t] = IF S.deduped[u] = <<>> THEN @ + 1 ELSE @,
              !.deduped[u] = Append(@, [cb |-> cb, t |-> t])]

RECURSIVE Without(_, _)
Without(ws, cb) ==
    IF ws = <<>> THEN <<>>
    ELSE IF Head(ws).cb = cb THEN Without(Tail(ws), cb)
         ELSE <<Head(ws)>> \o Without(Tail(ws), cb)

\* Cancelable.cancel() of a stored handle: a worker request loses its callback;
\* a fetch waiter is removed from its entry, and the fetch dies with its last
\* waiter.  A handle whose request has completed cancels nothing.
cancel(S, h) ==
    IF h.kind = "worker"
    THEN [S EXCEPT !.inflight = {r \in @ : r.cb # h.cb},
                   !.eff.cancelled = Append(@, h)]
    ELSE IF h.kind = "fetch"
    THEN [S EXCEPT !.deduped = [u \in Urls |-> Without(@[u], h.cb)],
                   !.eff.cancelled = Append(@, h)]
    ELSE S

\* The callback the cache passed to loadTile: the cache records a failed load
\* in the tile's lifecycle state.
callback(S, t, cb, err) ==
    [S EXCEPT !.invoked[cb] = Append(@, err),
              !.eff.calls = Append(@, [cb |-> cb, t |-> t, err |-> err]),
              !.tile[t].state = IF err = "null" THEN @ ELSE "errored"]

\* Tile consumer contract.
setExpiryData(S, t) == [S EXCEPT !.eff.expiry = @ \cup {t}]

loadVectorData(S, t, data) ==
    [S EXCEPT !.eff.handed = Append(@, [t |-> t, data |-> data]),
              !.tile[t].state = "loaded"]

unloadVectorData(S, t) == [S EXCEPT !.tile[t].state = "unloaded"]

----------------------------------------------------------------------------
(* VectorTileSource.loadTile, one operator per branch.                     *)

\* Mutant of loadTile_dispatch: the dispatcher is asked at every dispatch.
loadTile_dispatch_fresh(S, t, cb, a) ==
    LET u  == url[t]
        S1 == [S EXCEPT !.tile[t].actor = a, !.tileWorkers[u] = a]
    IN  IF ~ready
        THEN [request(S1, u, t, cb) EXCEPT !.tile[t].request = Handle("fetch", cb)]
        ELSE [send(S1, a, "loadTile", t, cb, FALSE)
                 EXCEPT !.tile[t].request = Handle("worker", cb)]

\* if (!tile.actor || tile.state === 'expired'): `a` is what
\* dispatcher.getActor() returns if it is called.
loadTile_dispatch(S, t, cb, a) ==
    LET u  == url[t]
        w  == IF S.tileWorkers[u] # None THEN S.tileWorkers[u] ELSE a
        S1 == [S EXCEPT !.tile[t].actor = w, !.tileWorkers[u] = w]
    IN  IF ~ready
        THEN [request(S1, u, t, cb) EXCEPT !.tile[t].request = Handle("fetch", cb)]
        ELSE [send(S1, w, "loadTile", t, cb, FALSE)
                 EXCEPT !.tile[t].request = Handle("worker", cb)]

\* Mutant of loadTile_park: the loading branch also asks the worker again.
loadTile_park_resend(S, t, cb) ==
    [send(S, S.tile[t].actor, "reloadTile", t, cb, FALSE)
        EXCEPT !.tile[t].reloadCallback = cb, !.parked = @ \cup {cb}]

\* else if (tile.state === 'loading')
loadTile_park(S, t, cb) ==
    [S EXCEPT !.tile[t].reloadCallback = cb, !.parked = @ \cup {cb}]

\* Mutant of loadTile_reload: a dispatcher that is not ready means an inline
\* fetch, as on the dispatch branch.
loadTile_reload_cold(S, t, cb) ==
    IF ~ready
    THEN [request(S, url[t], t, cb) EXCEPT !.tile[t].request = Handle("fetch", cb)]
    ELSE [send(S, S.tile[t].actor, "reloadTile", t, cb, FALSE)
             EXCEPT !.tile[t].request = Handle("worker", cb)]

\* else
loadTile_reload(S, t, cb) ==
    [send(S, S.tile[t].actor, "reloadTile", t, cb, FALSE)
        EXCEPT !.tile[t].request = Handle("worker", cb)]

loadTile(S, t, cb, a) ==
    IF S.tile[t].actor = None \/ S.tile[t].state = "expired"
    THEN loadTile_dispatch(S, t, cb, a)
    ELSE IF S.tile[t].state = "loading"
    THEN loadTile_park(S, t, cb)
    ELSE loadTile_reload(S, t, cb)

\* Mutant of done_reload: the slot is not emptied after the follow-up load.
done_reload_keep(S, t, a) ==
    IF S.tile[t].reloadCallback # NoCb
    THEN loadTile(S, t, S.tile[t].reloadCallback, a)
    ELSE S

\* if (tile.reloadCallback) { this.loadTile(tile, tile.reloadCallback);
\*                            tile.reloadCallback = null; }
done_reload(S, t, a) ==
    IF S.tile[t].reloadCallback # NoCb
    THEN [loadTile(S, t, S.tile[t].reloadCallback, a)
             EXCEPT !.tile[t].reloadCallback = NoCb]
    ELSE S

\* Mutant of done_success: the callback is invoked again after the follow-up.
done_success_twice(S, t, cb, data, a, refresh) ==
    LET S1 == IF data = "timing" THEN [S EXCEPT !.eff.timing = @ \cup {t}] ELSE S
        S2 == IF refresh /\ data # None THEN setExpiryData(S1, t) ELSE S1
        S3 == loadVectorData(S2, t, data)
        S4 == callback(S3, t, cb, "null")
    IN  callback(done_reload(S4, t, a), t, cb, "null")

\* The part of done after the aborted and error returns; `refresh` is
\* this.map._refreshExpiredTiles.
done_success(S, t, cb, data, a, refresh) ==
    LET S1 == IF data = "timing" THEN [S EXCEPT !.eff.timing = @ \cup {t}] ELSE S
        S2 == IF refresh /\ data # None THEN setExpiryData(S1, t) ELSE S1
        S3 == loadVectorData(S2, t, data)
        S4 == callback(S3, t, cb, "null")
    IN  done_reload(S4, t, a)

\* Mutant of done: an aborted tile's completion passes the error on.
done_abort_err(S, t, cb, err, data, a, refresh) ==
    LET S1 == [S EXCEPT !.tile[t].request = NoRequest]
    IN  IF S1.tile[t].aborted
        THEN callback(S1, t, cb, err)
        ELSE IF err # "null" /\ err # "e404"
        THEN callback(S1, t, cb, err)
        ELSE done_success(S1, t, cb, data, a, refresh)

\* Mutant of done: the aborted check is missing.
done_no_abort(S, t, cb, err, data, a, refresh) ==
    LET S1 == [S EXCEPT !.tile[t].request = NoRequest]
    IN  IF err # "null" /\ err # "e404"
        THEN callback(S1, t, cb, err)
        ELSE done_success(S1, t, cb, data, a, refresh)

\* Mutant of done: a 404 is returned to the caller like any other error.
done_404_err(S, t, cb, err, data, a, refresh) ==
    LET S1 == [S EXCEPT !.tile[t].request = NoRequest]
    IN  IF S1.tile[t].aborted
        THEN callback(S1, t, cb, "null")
        ELSE IF err # "null"
        THEN callback(S1, t, cb, err)
        ELSE done_success(S1, t, cb, data, a, refresh)

\* function done(err, data) of loadTile(tile, callback)
done(S, t, cb, err, data, a, refresh) ==
    LET S1 == [S EXCEPT !.tile[t].request = NoRequest]
    IN  IF S1.tile[t].aborted
        THEN callback(S1, t, cb, "null")
        ELSE IF err # "null" /\ err # "e404"
        THEN callback(S1, t, cb, err)
        ELSE done_success(S1, t, cb, data, a, refresh)

\* Mutant of fetched: the worker is asked whatever the fetch ended with.
fetched_always(S, t, cb, err, data, a, refresh) ==
    IF S.tile[t].actor # None
    THEN send(S, S.tile[t].actor, "loadTile", t, cb, TRUE)
    ELSE S

\* The callback loadTile gives loadVectorTile on the worker-cold path.
fetched(S, t, cb, err, data, a, refresh) ==
    IF err # "null" \/ data = None
    THEN done(S, t, cb, err, None, a, refresh)
    ELSE IF S.tile[t].actor # None
    THEN send(S, S.tile[t].actor, "loadTile", t, cb, TRUE)
    ELSE S

\* The fetch of a key completes: every waiter gets the result, in order.
RECURSIVE deliver(_, _, _, _, _, _)
deliver(S, ws, err, data, a, refresh) ==
    IF ws = <<>> THEN S
    ELSE deliver(fetched(S, Head(ws).t, Head(ws).cb, err, data, a, refresh),
                 Tail(ws), err, data, a, refresh)

\* Mutant of abortTile: the handle is cancelled but stays on the tile.
abortTile_keep(S, t) ==
    LET S1 == IF S.tile[t].request # NoRequest THEN cancel(S, S.tile[t].request) ELSE S
    IN  IF S1.tile[t].actor # None
        THEN send(S1, S1.tile[t].actor, "abortTile", t, NoCb, FALSE)
        ELSE S1

abortTile(S, t) ==
    LET S1 == IF S.tile[t].request # NoRequest
              THEN [cancel(S, S.tile[t].request) EXCEPT !.tile[t].request = NoRequest]
              ELSE S
    IN  IF S1.tile[t].actor # None
        THEN send(S1, S1.tile[t].actor, "abortTile", t, NoCb, FALSE)
        ELSE S1

\* Mutant of unloadTile: the message goes to the actor of the table.
unloadTile_by_table(S, t) ==
    LET S1 == unloadVectorData(S, t)
    IN  IF S1.tileWorkers[url[t]] # None
        THEN send(S1, S1.tileWorkers[url[t]], "removeTile", t, NoCb, FALSE)
        ELSE S1

unloadTile(S, t) ==
    LET S1 == unloadVectorData(S, t)
    IN  IF S1.tile[t].actor # None
        THEN send(S1, S1.tile[t].actor, "removeTile", t, NoCb, FALSE)
        ELSE S1

afterUpdate(S) == [S EXCEPT !.tileWorkers = [u \in Urls |-> None]]

----------------------------------------------------------------------------
(* The metadata loader (load_tilejson.js).  An object is a function from   *)
(* the keys it defines to their values.                                    *)

\* The keys `loaded` picks for the descriptor.
PickKeys == {"tiles", "minzoom", "maxzoom", "attribution", "mapbox_logo", "bounds",
             "scheme", "tileSize", "encoding", "zoomoffset"}
\* The keys a source options object or a TileJSON document may define here.
OptionKeys == PickKeys \cup {"url", "vector_layers"}
JSONKeys   == PickKeys \cup {"vector_layers", "name"}

PlainTileURL   == "https://tiles.example.org/{z}/{x}/{y}.pbf"
MapboxHTTPURL  == "https://a.tiles.mapbox.com/v4/id/{z}/{x}/{y}.vector.pbf"
CanonicalURL   == "mapbox://tiles/id/{z}/{x}/{y}.vector.pbf"
TileLists      == {<<PlainTileURL>>, <<MapboxHTTPURL>>, <<MapboxHTTPURL, PlainTileURL>>}
Layers         == <<[id |-> "road"], [id |-> "water"]>>

\* The value the source options (from == "options") or the fetched TileJSON
\* (from == "tilejson") give key k; tl is the tile-URL list it gives.
ValueOf(from, k, tl) ==
    IF k = "tiles" THEN tl
    ELSE IF k = "vector_layers" THEN Layers
    ELSE from

\* util.extend(dest, src): every key of src is written over dest.
extend(dest, src) ==
    [k \in DOMAIN dest \cup DOMAIN src |-> IF k \in DOMAIN src THEN src[k] ELSE dest[k]]

\* util.pick(src, properties)
pick(src, properties) == [k \in DOMAIN src \cap properties |-> src[k]]

\* RequestManager.canonicalizeTileset(tileJSON, sourceURL): Mapbox HTTP tile
\* URLs become mapbox:// URLs, any other URL is kept; no tiles gives [].
canonicalizeTileURL(u) == IF u = MapboxHTTPURL THEN CanonicalURL ELSE u

canonicalizeTileset(tileJSON, sourceURL) ==
    IF "tiles" \in DOMAIN tileJSON
    THEN [i \in 1 .. Len(tileJSON.tiles) |-> canonicalizeTileURL(tileJSON.tiles[i])]
    ELSE <<>>

\* Mutant of loadTileJSON: the choice is made on the tile-URL list.
loadTileJSON_by_tiles(opts) == IF "tiles" \in DOMAIN opts THEN "frame" ELSE "getJSON"

\* if (options.url) return getJSON(...) else return browser.frame(...): the
\* request the loader issues, and returns the handle of.
loadTileJSON(opts) == IF "url" \in DOMAIN opts THEN "getJSON" ELSE "frame"

NoResult == [called |-> FALSE, err |-> "null", result |-> <<>>]

\* Mutant of loaded: the TileJSON is written over the options.
loaded_json_wins(err, tileJSON, opts) ==
    IF err # "null"
    THEN [called |-> TRUE, err |-> err, result |-> <<>>]
    ELSE LET merged == extend(opts, tileJSON)
             result == pick(merged, PickKeys)
             layers == IF "vector_layers" \in DOMAIN merged
                       THEN [k \in {"vectorLayers", "vectorLayerIds"} |->
                               IF k = "vectorLayers" THEN merged.vector_layers
                               ELSE [i \in 1 .. Len(merged.vector_layers) |->
                                        merged.vector_layers[i].id]]
                       ELSE <<>>
             tiles  == [k \in {"tiles"} |->
                          canonicalizeTileset(result, IF "url" \in DOMAIN opts
                                                      THEN opts.url ELSE None)]
         IN  [called |-> TRUE, err |-> "null",
              result |-> extend(extend(result, layers), tiles)]

\* const loaded = function(err, tileJSON): what the callback receives.  (A
\* response is an object here, so `else if (tileJSON)` is taken.)
loaded(err, tileJSON, opts) ==
    IF err # "null"
    THEN [called |-> TRUE, err |-> err, result |-> <<>>]
    ELSE LET merged == extend(tileJSON, opts)
             result == pick(merged, PickKeys)
             layers == IF "vector_layers" \in DOMAIN merged
                       THEN [k \in {"vectorLayers", "vectorLayerIds"} |->
                               IF k = "vectorLayers" THEN merged.vector_layers
                               ELSE [i \in 1 .. Len(merged.vector_layers) |->
                                        merged.vector_layers[i].id]]
                       ELSE <<>>
             tiles  == [k \in {"tiles"} |->
                          canonicalizeTileset(result, IF "url" \in DOMAIN opts
                                                      THEN opts.url ELSE None)]
         IN  [called |-> TRUE, err |-> "null",
              result |-> extend(extend(result, layers), tiles)]

----------------------------------------------------------------------------
(* The metadata lifecycle of VectorTileSource: load, setUrl, setTiles,     *)
(* onAdd, onRemove.  S is the source with the requests it has pending, the *)
(* log of what the last handler did, and the history of its requests.      *)

NoReq == 0
SourceCaches == {"cache", "symbolCache"}
Log(op, x) == [op |-> op, x |-> x]

\* constructor(id, options, dispatcher, eventedParent)
construct(opts) ==
    [map |-> FALSE, isLoaded |-> FALSE, tileJSONRequest |-> NoReq, opts |-> opts,
     fields |-> extend([k \in {"minzoom", "maxzoom", "scheme", "tileSize", "zoomoffset"}
                           |-> "default"],
                       pick(opts, {"url", "scheme", "tileSize", "promoteId", "zoomoffset"})),
     tileBounds |-> FALSE, requests |-> {}, nextReq |-> 1, log |-> <<>>,
     applied |-> {}, superseded |-> {}, sets |-> 0, removed |-> FALSE]

NoSource == construct(<<>>)

\* Cancelable.cancel() of a metadata request: the request is dropped and its
\* callback suppressed.
cancelRequest(S, id) ==
    [S EXCEPT !.requests = {r \in @ : r.id # id}, !.log = Append(@, Log("cancel", id))]

fire(S, type) == [S EXCEPT !.log = Append(@, Log("event", type))]

\* Mutant of load: the source stays loaded while the metadata is fetched.
load_stay_loaded(S) ==
    LET S1 == fire(S, "dataloading")
        r  == [id |-> S.nextReq, kind |-> loadTileJSON(S.opts),
               url |-> IF "url" \in DOMAIN S.opts THEN S.opts.url ELSE None]
    IN  [S1 EXCEPT !.requests = @ \cup {r}, !.tileJSONRequest = r.id, !.nextReq = @ + 1,
                   !.log = Append(@, Log("request", r.id))]

\* load(), up to the pending request
load(S) ==
    LET S1 == fire([S EXCEPT !.isLoaded = FALSE], "dataloading")
        r  == [id |-> S.nextReq, kind |-> loadTileJSON(S.opts),
               url |-> IF "url" \in DOMAIN S.opts THEN S.opts.url ELSE None]
    IN  [S1 EXCEPT !.requests = @ \cup {r}, !.tileJSONRequest = r.id, !.nextReq = @ + 1,
                   !.log = Append(@, Log("request", r.id))]

\* The callback load() gives loadTileJSON, called for request id.
loadCallback(S, id, err, tileJSON) ==
    LET S1 == [S EXCEPT !.tileJSONRequest = NoReq, !.isLoaded = TRUE,
                        !.applied = @ \cup {id}]
    IN  IF err # "null" THEN fire(S1, "error")
        ELSE LET S2 == [S1 EXCEPT !.fields = extend(@, tileJSON),
                                  !.tileBounds = IF "bounds" \in DOMAIN tileJSON
                                                 THEN TRUE ELSE @,
                                  !.log = Append(@, Log("turnstile", id))]
             IN  fire(fire(S2, "data:metadata"), "data:content")

onAdd(S) == load([S EXCEPT !.map = TRUE])

RECURSIVE clearTiles(_, _)
clearTiles(S, caches) ==
    IF caches = {} THEN S
    ELSE LET c == CHOOSE x \in caches : TRUE
         IN  clearTiles([S EXCEPT !.log = Append(@, Log("clearTiles", c))], caches \ {c})

\* The callbacks setTiles and setUrl give setSourceProperty.
change(S, key, value) ==
    IF key = "url"
    THEN [S EXCEPT !.fields = extend(@, [k \in {"url"} |-> value]),
                   !.opts = extend(@, [k \in {"url"} |-> value])]
    ELSE [S EXCEPT !.opts = extend(@, [k \in {"tiles"} |-> value])]

\* Mutant of setSourceProperty: the pending request is not cancelled.
setSourceProperty_no_cancel(S, key, value) ==
    load(clearTiles(change(S, key, value), SourceCaches))

\* Mutant of setSourceProperty: the dependent caches are left alone.
setSourceProperty_no_clear(S, key, value) ==
    LET S1 == IF S.tileJSONRequest # NoReq THEN cancelRequest(S, S.tileJSONRequest) ELSE S
    IN  load(change(S1, key, value))

setSourceProperty(S, key, value) ==
    LET S1 == IF S.tileJSONRequest # NoReq THEN cancelRequest(S, S.tileJSONRequest) ELSE S
    IN  load(clearTiles(change(S1, key, value), SourceCaches))

setTiles(S, tiles) == setSourceProperty(S, "tiles", tiles)

setUrl(S, u) == setSourceProperty(S, "url", u)

onRemove(S) ==
    IF S.tileJSONRequest # NoReq
    THEN [cancelRequest(S, S.tileJSONRequest) EXCEPT !.tileJSONRequest = NoReq]
    ELSE S

----------------------------------------------------------------------------
(* The steps of the tile protocol.                                         *)

States == {"idle", "loading", "loaded", "reloading", "expired", "errored", "unloaded"}

ErrOutcomes == {[err |-> "e404", data |-> None], [err |-> "eOther", data |-> None]}
\* What an inline fetch can end with: the bytes, or an error.
FetchOutcomes == {[err |-> "null", data |-> "plain"]} \cup ErrOutcomes
\* What a worker can answer: data (with or without resource timing), nothing
\* (an empty tile), or an error.
WorkerOutcomes == {[err |-> "null", data |-> "plain"], [err |-> "null", data |-> "timing"],
                   [err |-> "null", data |-> None]} \cup ErrOutcomes

\* A tile as the cache creates it.
NoTile == [state |-> "idle", actor |-> None, request |-> NoRequest,
           reloadCallback |-> NoCb, aborted |-> FALSE]

Commit(S) ==
    /\ tile' = S.tile
    /\ tileWorkers' = S.tileWorkers
    /\ deduped' = S.deduped
    /\ inflight' = S.inflight
    /\ invoked' = S.invoked
    /\ parked' = S.parked
    /\ fetches' = S.fetches

\* History: loader[t] is the actor that received the first loadTile message of
\* tile t, rebound[t] whether the dispatch branch ran on t when it had an
\* actor already (both kept by Spec), batch the tiles dispatched since the
\* last afterUpdate (kept by SpecShared).
NoHist(keeps) == [keeps |-> keeps, loader |-> [t \in Tiles |-> None],
                  rebound |-> [t \in Tiles |-> FALSE], batch |-> {}]

FirstLoad(msgs, t) ==
    LET I == {i \in 1 .. Len(msgs) : msgs[i].type = "loadTile" /\ msgs[i].t = t}
    IN  IF I = {} THEN None ELSE msgs[CHOOSE i \in I : \A j \in I : i <= j].actor

Sent(h, msgs) ==
    IF h.keeps # "loader" THEN h
    ELSE [h EXCEPT !.loader = [t \in Tiles |-> IF @[t] # None THEN @[t]
                                               ELSE FirstLoad(msgs, t)]]

\* The lifecycle state in which the tile cache hands a tile to loadTile: a new
\* tile is loading; a tile that is still loading stays so; any other tile is
\* reloaded as 'reloading' or 'expired'; an evicted tile is not loaded again.
CacheStates(st) ==
    CASE st = "idle" -> {"loading"}
      [] st = "loading" -> {"loading"}
      [] st = "unloaded" -> {}
      [] OTHER -> {"reloading", "expired"}

\* The callbacks of the requests in flight for tile t: worker requests and
\* waiters of inline fetches.
WorkerReqs(t) == {r \in inflight : r.t = t}
AllWaiters == UNION {{deduped[u][i] : i \in 1 .. Len(deduped[u])} : u \in Urls}
FetchWaiters(t) == {w \in AllWaiters : w.t = t}
InFlightCbs(t) == {r.cb : r \in WorkerReqs(t)} \cup {w.cb : w \in FetchWaiters(t)}
\* The callbacks loadTile can be called with for tile t: the fresh one of the
\* cache, or the one in the tile's pending reload slot.
NextCbs(t) == ({nextCb} \cup {tile[t].reloadCallback}) \ {NoCb}

TypeOK ==
    /\ tile \in [Tiles -> [state : States, actor : Actors \cup {None},
                           request : [kind : {"none", "fetch", "worker"}, cb : CbIds \cup {NoCb}],
                           reloadCallback : CbIds \cup {NoCb}, aborted : BOOLEAN]]
    /\ tileWorkers \in [Urls -> Actors \cup {None}]
    /\ ready \in BOOLEAN
    /\ \A t \in Tiles : calls[t] <= limit[t]

TileInit ==
    /\ tile = [t \in Tiles |-> NoTile]
    /\ tileWorkers = [u \in Urls |-> None]
    /\ deduped = [u \in Urls |-> <<>>]
    /\ inflight = {}
    /\ ready = FALSE
    /\ calls = [t \in Tiles |-> 0]
    /\ nextCb = 1
    /\ owner = [c \in CbIds |-> None]
    /\ invoked = [c \in CbIds |-> <<>>]
    /\ parked = {}
    /\ fetches = [t \in Tiles |-> 0]
    /\ pendingAtAbort = [t \in Tiles |-> {}]

MetaOff ==
    /\ options = <<>>
    /\ fetchedJSON = <<>>
    /\ tileJSONRequest = None
    /\ resolved = NoResult
    /\ source = NoSource

Init ==
    /\ TileInit
    /\ url = [t \in Tiles |-> "u"]
    /\ limit = [t \in Tiles |-> IF t = "a" THEN MaxCalls ELSE 0]
    /\ hist = NoHist("loader")
    /\ MetaOff

InitShared ==
    /\ TileInit
    /\ url \in {[t \in Tiles |-> "u"], [t \in Tiles |-> IF t = "a" THEN "u" ELSE "v"]}
    /\ limit \in {l \in [Tiles -> 1 .. MaxShared] :
                     l["a"] + l["b"] = MaxShared /\ l["a"] >= l["b"]}
    /\ hist = NoHist("batch")
    /\ MetaOff

\* The tile cache loads or reloads tile t, in lifecycle state s; a is the
\* actor the dispatcher hands out if asked (the first one it hands out is w1).
CacheLoadTile(t, s, a) ==
    /\ calls[t] < limit[t]
    /\ ~tile[t].aborted
    /\ s \in CacheStates(tile[t].state)
    /\ (\A x \in Tiles : tile[x].actor = None) => a = "w1"
    /\ LET R == loadTile([Cur EXCEPT !.tile[t].state = s], t, nextCb, a)
           d == tile[t].actor = None \/ s = "expired"
       IN  /\ Commit(R)
           /\ hist' = [Sent(hist, R.eff.msgs)
                          EXCEPT !.batch = IF d /\ hist.keeps = "batch"
                                           THEN @ \cup {t} ELSE @,
                                 !.rebound[t] = @ \/ (d /\ tile[t].actor # None
                                                         /\ hist.keeps = "loader")]
    /\ nextCb' = nextCb + 1
    /\ owner' = [owner EXCEPT ![nextCb] = t]
    /\ calls' = [calls EXCEPT ![t] = @ + 1]
    /\ UNCHANGED <<ready, url, limit, pendingAtAbort, options, fetchedJSON, tileJSONRequest, resolved, source>>

\* The tile cache drops tile t: it marks the tile aborted and aborts it.
CacheAbortTile(t) ==
    /\ ~tile[t].aborted
    /\ tile[t].state # "unloaded"
    /\ limit[t] > 0
    /\ LET R == abortTile([Cur EXCEPT !.tile[t].aborted = TRUE], t)
       IN  Commit(R) /\ hist' = Sent(hist, R.eff.msgs)
    /\ pendingAtAbort' = [pendingAtAbort EXCEPT ![t] = InFlightCbs(t)]
    /\ UNCHANGED <<ready, url, limit, calls, nextCb, owner, options, fetchedJSON, tileJSONRequest, resolved, source>>

\* The tile cache evicts tile t.
CacheUnloadTile(t) ==
    /\ tile[t].state \notin {"idle", "unloaded"}
    /\ LET R == unloadTile(Cur, t)
       IN  Commit(R) /\ hist' = Sent(hist, R.eff.msgs)
    /\ UNCHANGED <<ready, url, limit, calls, nextCb, owner, pendingAtAbort,
                   options, fetchedJSON, tileJSONRequest, resolved, source>>

\* The end of a batch update cycle.
AfterUpdate ==
    /\ \E u \in Urls : tileWorkers[u] # None
    /\ Commit(afterUpdate(Cur))
    /\ hist' = [hist EXCEPT !.batch = {}]
    /\ UNCHANGED <<ready, url, limit, calls, nextCb, owner, pendingAtAbort,
                   options, fetchedJSON, tileJSONRequest, resolved, source>>

\* The workers have reported ready.
DispatcherReady ==
    /\ ~ready
    /\ ready' = TRUE
    /\ UNCHANGED <<tile, tileWorkers, deduped, inflight, url, limit, calls, nextCb, owner,
                   invoked, parked, fetches, pendingAtAbort, hist,
                   options, fetchedJSON, tileJSONRequest, resolved, source>>

\* The inline fetch of url u ends with outcome out.
FetchComplete(u, out, a, refresh) ==
    /\ deduped[u] # <<>>
    /\ LET R == deliver([Cur EXCEPT !.deduped[u] = <<>>], deduped[u], out.err, out.data,
                        a, refresh)
       IN  Commit(R) /\ hist' = Sent(hist, R.eff.msgs)
    /\ UNCHANGED <<ready, url, limit, calls, nextCb, owner, pendingAtAbort,
                   options, fetchedJSON, tileJSONRequest, resolved, source>>

\* A worker answers request r with outcome out.
WorkerComplete(r, out, a, refresh) ==
    /\ r \in inflight
    /\ LET R == done([Cur EXCEPT !.inflight = @ \ {r}], r.t, r.cb, out.err, out.data,
                     a, refresh)
       IN  Commit(R) /\ hist' = Sent(hist, R.eff.msgs)
    /\ UNCHANGED <<ready, url, limit, calls, nextCb, owner, pendingAtAbort,
                   options, fetchedJSON, tileJSONRequest, resolved, source>>

Next ==
    \/ \E t \in Tiles, s \in States, a \in Actors : CacheLoadTile(t, s, a)
    \/ \E t \in Tiles : CacheAbortTile(t)
    \/ \E t \in Tiles : CacheUnloadTile(t)
    \/ AfterUpdate
    \/ DispatcherReady
    \/ \E u \in Urls, out \in FetchOutcomes, a \in Actors, refresh \in BOOLEAN :
          FetchComplete(u, out, a, refresh)
    \/ \E r \in inflight, out \in WorkerOutcomes, a \in Actors, refresh \in BOOLEAN :
          WorkerComplete(r, out, a, refresh)

Spec == Init /\ [][Next]_vars

SpecShared == InitShared /\ [][Next]_vars

----------------------------------------------------------------------------
(* The steps of the metadata loader.                                       *)

Objects(keys, from) ==
    UNION {{[k \in D |-> ValueOf(from, k, tl)] : tl \in TileLists}
             : D \in {X \in SUBSET keys : Cardinality(X) <= MaxKeys}}

InitMeta ==
    /\ TileInit
    /\ url = [t \in Tiles |-> "u"]
    /\ limit = [t \in Tiles |-> 0]
    /\ hist = NoHist("none")
    /\ options \in Objects(OptionKeys, "options")
    /\ fetchedJSON = <<>>
    /\ tileJSONRequest = None
    /\ resolved = NoResult
    /\ source = NoSource

\* export default function(options, requestManager, callback): a fetch when
\* the options have a url, the next animation frame otherwise.
LoadTileJSON ==
    /\ tileJSONRequest = None
    /\ tileJSONRequest' = loadTileJSON(options)
    /\ UNCHANGED <<options, fetchedJSON, resolved>>
    /\ UNCHANGED <<tileVars, source>>

\* getJSON answers with a document.
JSONResponse(doc) ==
    /\ tileJSONRequest = "getJSON"
    /\ fetchedJSON' = doc
    /\ resolved' = loaded("null", doc, options)
    /\ tileJSONRequest' = "done"
    /\ UNCHANGED options
    /\ UNCHANGED <<tileVars, source>>

\* getJSON fails.
JSONError ==
    /\ tileJSONRequest = "getJSON"
    /\ resolved' = loaded("eOther", <<>>, options)
    /\ tileJSONRequest' = "done"
    /\ UNCHANGED <<options, fetchedJSON>>
    /\ UNCHANGED <<tileVars, source>>

\* browser.frame(() => loaded(null, options))
Frame ==
    /\ tileJSONRequest = "frame"
    /\ resolved' = loaded("null", options, options)
    /\ tileJSONRequest' = "done"
    /\ UNCHANGED <<options, fetchedJSON>>
    /\ UNCHANGED <<tileVars, source>>

\* The returned Cancelable is cancelled before the callback ran.
CancelTileJSON ==
    /\ tileJSONRequest \in {"getJSON", "frame"}
    /\ tileJSONRequest' = "cancelled"
    /\ UNCHANGED <<options, fetchedJSON, resolved>>
    /\ UNCHANGED <<tileVars, source>>

NextMeta ==
    \/ LoadTileJSON
    \/ \E doc \in Objects(JSONKeys, "tilejson") : JSONResponse(doc)
    \/ JSONError
    \/ Frame
    \/ CancelTileJSON

SpecMeta == InitMeta /\ [][NextMeta]_vars

----------------------------------------------------------------------------
(* The steps of the source's metadata lifecycle.                           *)

\* The options a source is created with, the values the setters are called
\* with, and the documents a metadata fetch can return.
SourceOptions ==
    {[k \in D |-> ValueOf("options", k, <<PlainTileURL>>)]
        : D \in {{"url"}, {"tiles"}, {"url", "tiles"}, {"url", "minzoom"}}}
NewUrls == {"url2", "url3"}
NewTiles == {<<MapboxHTTPURL>>, <<PlainTileURL, MapboxHTTPURL>>}
SourceDocs ==
    {[k \in D |-> ValueOf("tilejson", k, <<MapboxHTTPURL>>)]
        : D \in {{}, {"minzoom", "maxzoom"}, {"tiles", "bounds"}}}

InitSource ==
    /\ TileInit
    /\ url = [t \in Tiles |-> "u"]
    /\ limit = [t \in Tiles |-> 0]
    /\ hist = NoHist("none")
    /\ options = <<>>
    /\ fetchedJSON = <<>>
    /\ tileJSONRequest = None
    /\ resolved = NoResult
    /\ source \in {construct(o) : o \in SourceOptions}

\* The source as a handler finds it: an empty log.
Src == [source EXCEPT !.log = <<>>]
PendingIds == {r.id : r \in source.requests}
OtherVars == <<tileVars, options, fetchedJSON, tileJSONRequest, resolved>>

\* The style adds the source to the map.
OnAdd ==
    /\ ~source.map
    /\ source' = onAdd(Src)
    /\ UNCHANGED OtherVars

SetUrl(u) ==
    /\ source.map
    /\ source.sets < MaxSets
    /\ source' = [setUrl(Src, u) EXCEPT !.sets = @ + 1,
                                        !.superseded = @ \cup PendingIds]
    /\ UNCHANGED OtherVars

SetTiles(tiles) ==
    /\ source.map
    /\ source.sets < MaxSets
    /\ source' = [setTiles(Src, tiles) EXCEPT !.sets = @ + 1,
                                              !.superseded = @ \cup PendingIds]
    /\ UNCHANGED OtherVars

\* The style removes the source.
OnRemove ==
    /\ source.map
    /\ ~source.removed
    /\ source' = [onRemove(Src) EXCEPT !.removed = TRUE]
    /\ UNCHANGED OtherVars

\* What the completion of pending request r with a document or an error does.
complete(S, r, err, doc) ==
    LET res == IF r.kind = "getJSON" THEN loaded(err, doc, S.opts)
               ELSE loaded("null", S.opts, S.opts)
    IN  loadCallback([S EXCEPT !.requests = @ \ {r}], r.id, res.err, res.result)

\* A pending metadata request completes: the fetch with a document or an
\* error, the animation frame by running.
RequestComplete(r, err, doc) ==
    /\ r \in source.requests
    /\ r.kind = "frame" => err = "null" /\ doc = <<>>
    /\ err # "null" => doc = <<>>
    /\ source' = complete(Src, r, err, doc)
    /\ UNCHANGED OtherVars

NextSource ==
    \/ OnAdd
    \/ \E u \in NewUrls : SetUrl(u)
    \/ \E tiles \in NewTiles : SetTiles(tiles)
    \/ OnRemove
    \/ \E r \in source.requests, err \in {"null", "eOther"}, doc \in SourceDocs :
          RequestComplete(r, err, doc)

SpecSource == InitSource /\ [][NextSource]_vars

----------------------------------------------------------------------------
(* Properties.  A property of one handler is stated over every reachable   *)
(* state and every input of the handler: R is the state after the handler, *)
(* R.eff what the handler did.                                             *)

\* The state without the history and the log: what the program holds.
Prog(S) == [tile |-> S.tile, tileWorkers |-> S.tileWorkers, deduped |-> S.deduped,
            inflight |-> S.inflight]

Silent(e) == e.msgs = <<>> /\ e.fetches = <<>> /\ e.cancelled = <<>> /\ e.calls = <<>>
             /\ e.handed = <<>> /\ e.timing = {} /\ e.expiry = {}

\* C1: loadTile on a tile that has a bound actor and is in state 'loading'
\* sends no worker message and starts no fetch; its only effect is to store
\* the new callback in the pending reload slot (tile.request, tile.actor and
\* the worker assignment table are unchanged).
C1_LoadingOnlyParks ==
    \A t \in Tiles, cb \in CbIds, a \in Actors :
        (tile[t].actor # None /\ tile[t].state = "loading") =>
            LET R == loadTile(Cur, t, cb, a)
            IN  /\ Silent(R.eff)
                /\ R.tile[t].reloadCallback = cb
                /\ R.tile[t].request = tile[t].request
                /\ R.tile[t].actor = tile[t].actor
                /\ R.tileWorkers = tileWorkers
                /\ Prog(R) = Prog([Cur EXCEPT !.tile[t].reloadCallback = cb])

\* A callback sits in the slot of a loading tile while the first request is
\* still in flight and is the tile's request.
C1_Witness ==
    \E t \in Tiles :
        /\ tile[t].state = "loading" /\ tile[t].actor # None
        /\ tile[t].reloadCallback \in parked
        /\ tile[t].request.cb \in InFlightCbs(t)
        /\ tile[t].request.cb # tile[t].reloadCallback

\* C3 (as claimed): for every tile, in every reachable state, at most one raw
\* tile fetch and at most one worker loadTile/reloadTile request is in flight.
C3_AtMostOneInFlight ==
    \A t \in Tiles : Cardinality(FetchWaiters(t)) <= 1 /\ Cardinality(WorkerReqs(t)) <= 1

\* C3 (amended): while a tile is in lifecycle state 'loading', at most one raw
\* tile fetch and at most one worker request for it is in flight, never both,
\* and a loadTile call made then issues nothing.
C3_AtMostOneWhileLoading ==
    \A t \in Tiles :
        tile[t].state = "loading" =>
            /\ Cardinality(FetchWaiters(t)) + Cardinality(WorkerReqs(t)) <= 1
            /\ \A cb \in CbIds, a \in Actors :
                  InFlightCbs(t) # {} =>
                      LET R == loadTile(Cur, t, cb, a)
                      IN  R.inflight = inflight /\ R.deduped = deduped

\* A loading tile with a request in flight and a second call parked.
C3_Witness ==
    \E t \in Tiles :
        /\ tile[t].state = "loading"
        /\ Cardinality(InFlightCbs(t)) = 1
        /\ tile[t].reloadCallback # NoCb
        /\ calls[t] >= 2

\* C4: the pending reload slot is last-writer-wins: a loadTile call on a
\* loading tile overwrites whatever the slot holds; a completion that goes on
\* to the follow-up load issues it with the callback in the slot, once, and
\* leaves the slot empty.
C4_LastWriterWins ==
    /\ \A t \in Tiles, cb \in CbIds, a \in Actors :
          (tile[t].actor # None /\ tile[t].state = "loading") =>
              loadTile(Cur, t, cb, a).tile[t].reloadCallback = cb
    /\ \A r \in inflight, out \in WorkerOutcomes, a \in Actors, refresh \in BOOLEAN :
          LET c == tile[r.t].reloadCallback
              R == done([Cur EXCEPT !.inflight = @ \ {r}], r.t, r.cb, out.err, out.data,
                        a, refresh)
          IN  (c # NoCb /\ ~tile[r.t].aborted /\ out.err \in {"null", "e404"}) =>
                  /\ R.tile[r.t].reloadCallback = NoCb
                  /\ Len(R.eff.msgs) = 1
                  /\ R.eff.msgs[1].cb = c
                  /\ R.eff.msgs[1].t = r.t
                  /\ R.inflight = (inflight \ {r}) \cup {R.eff.msgs[1]}

\* Callback 2 was parked and overwritten by callback 3; the follow-up load was
\* issued with 3 and the slot is empty.
C4_Witness ==
    \E t \in Tiles, c \in parked, d \in parked :
        /\ c < d /\ owner[c] = t /\ owner[d] = t
        /\ invoked[c] = <<>> /\ c \notin InFlightCbs(t)
        /\ d \in {r.cb : r \in WorkerReqs(t)}
        /\ tile[t].reloadCallback = NoCb

\* C2 (as claimed, on a finished run): when loadTile was called twice on a
\* tile, the second time while the first was pending (so it was parked), and
\* every request of the tile has completed, exactly one network fetch was made
\* for the tile and both callbacks have been invoked.
C2_OneFetchBothInvoked ==
    \A t \in Tiles, c1 \in CbIds, c2 \in parked :
        (/\ owner[c1] = t /\ owner[c2] = t /\ c1 < c2 /\ calls[t] = 2
         /\ ~tile[t].aborted /\ InFlightCbs(t) = {}) =>
            fetches[t] = 1 /\ invoked[c1] # <<>> /\ invoked[c2] # <<>>

\* C5: abortTile cancels the tile's request handle if there is one and removes
\* it, sends exactly one abortTile message to the bound actor iff one is
\* bound, and leaves the tile, its actor and its lifecycle state as they were.
C5_AbortTile ==
    \A t \in Tiles :
        LET h == tile[t].request
            R == abortTile(Cur, t)
        IN  /\ R.eff.cancelled = IF h # NoRequest THEN <<h>> ELSE <<>>
            /\ R.tile = [tile EXCEPT ![t].request = NoRequest]
            /\ h.kind = "worker" => R.inflight = {r \in inflight : r.cb # h.cb}
            /\ h.kind = "fetch" => \A u \in Urls : \A i \in 1 .. Len(R.deduped[u]) :
                                       R.deduped[u][i].cb # h.cb
            /\ R.eff.msgs = IF tile[t].actor # None
                            THEN <<Msg("abortTile", t, tile[t].actor, NoCb, FALSE)>>
                            ELSE <<>>
            /\ R.tileWorkers = tileWorkers
            /\ R.eff.calls = <<>> /\ R.eff.handed = <<>>

\* A tile was aborted while its request was in flight: the request is gone,
\* the handle removed, the actor and the lifecycle state are still there.
C5_Witness ==
    \E t \in Tiles :
        /\ tile[t].aborted /\ pendingAtAbort[t] # {}
        /\ tile[t].request = NoRequest /\ InFlightCbs(t) = {}
        /\ tile[t].actor # None /\ tile[t].state = "loading"

\* C6 (as claimed, on a finished run): the callback of a load that was in
\* flight when its tile was aborted has been invoked with a null result once
\* nothing is in flight for the tile any more.
C6_AbortInvokesCallback ==
    \A t \in Tiles : \A c \in pendingAtAbort[t] :
        InFlightCbs(t) = {} => invoked[c] = <<"null">>

\* C6 (amended): abortTile itself invokes no callback; the callback of a load
\* that was in flight when its tile was aborted is never invoked with an
\* error: either not at all, or (by a completion that still arrives) once,
\* with a null result.
C6_AbortNeverErrors ==
    /\ \A t \in Tiles : abortTile(Cur, t).eff.calls = <<>>
    /\ \A t \in Tiles : \A c \in pendingAtAbort[t] : invoked[c] \in {<<>>, <<"null">>}

\* The load in flight at the abort was completed afterwards: its callback got
\* a null result.
C6_Witness ==
    \E t \in Tiles : \E c \in pendingAtAbort[t] : tile[t].aborted /\ invoked[c] = <<"null">>

\* C7: a completion that arrives for a tile marked aborted, with data or with
\* an error, clears the request handle and invokes the callback with a null
\* error, and does nothing else: no resource-timing or expiry update, no data
\* handed to the tile, no queued reload issued.
AbortedCompletion(R, t, cb) ==
    /\ R.eff = [NoEff EXCEPT !.calls = <<[cb |-> cb, t |-> t, err |-> "null"]>>]
    /\ R.tile = [tile EXCEPT ![t].request = NoRequest]
    /\ R.invoked = [invoked EXCEPT ![cb] = Append(@, "null")]

C7_AbortedCompletion ==
    /\ \A r \in inflight, out \in WorkerOutcomes, a \in Actors, refresh \in BOOLEAN :
          tile[r.t].aborted =>
              LET R == done([Cur EXCEPT !.inflight = @ \ {r}], r.t, r.cb, out.err, out.data,
                            a, refresh)
              IN  AbortedCompletion(R, r.t, r.cb) /\ R.inflight = inflight \ {r}
    /\ \A w \in AllWaiters, out \in ErrOutcomes, a \in Actors, refresh \in BOOLEAN :
          tile[w.t].aborted =>
              AbortedCompletion(fetched(Cur, w.t, w.cb, out.err, out.data, a, refresh),
                                w.t, w.cb)

\* A completion arrived for an aborted tile with a queued reload: the callback
\* got null, the queued callback is still in the slot and was never issued.
C7_Witness ==
    \E t \in Tiles, c \in CbIds :
        /\ tile[t].aborted /\ owner[c] = t /\ invoked[c] = <<"null">>
        /\ c \in pendingAtAbort[t]
        /\ tile[t].reloadCallback # NoCb
        /\ invoked[tile[t].reloadCallback] = <<>>
        /\ InFlightCbs(t) = {}
        /\ tile[t].state = "loading"

\* C8: on the worker-cold path loadTile sends no worker message; when the
\* inline fetch succeeds, each waiting load sends exactly one loadTile message,
\* carrying the fetched bytes; when it fails, no worker message is sent for
\* that load.  A load never waits for its fetch and for a worker at once.
MsgsOf(e, cb) == {i \in 1 .. Len(e.msgs) : e.msgs[i].cb = cb}

C8_ColdPath ==
    /\ \A t \in Tiles, cb \in CbIds, a \in Actors :
          ((tile[t].actor = None \/ tile[t].state = "expired") /\ ~ready) =>
              LET R == loadTile(Cur, t, cb, a)
              IN  /\ R.eff.msgs = <<>>
                  /\ R.inflight = inflight
                  /\ R.deduped[url[t]] = Append(deduped[url[t]], [cb |-> cb, t |-> t])
                  /\ R.tile[t].request = Handle("fetch", cb)
    /\ \A u \in Urls, out \in FetchOutcomes, a \in Actors, refresh \in BOOLEAN :
          LET R == deliver([Cur EXCEPT !.deduped[u] = <<>>], deduped[u], out.err, out.data,
                           a, refresh)
          IN  \A i \in 1 .. Len(deduped[u]) :
                  LET w == deduped[u][i]
                  IN  IF out.err = "null"
                      THEN /\ Cardinality(MsgsOf(R.eff, w.cb)) = 1
                           /\ \A j \in MsgsOf(R.eff, w.cb) :
                                 R.eff.msgs[j] = Msg("loadTile", w.t, tile[w.t].actor, w.cb, TRUE)
                           /\ \A j \in 1 .. Len(R.eff.calls) : R.eff.calls[j].cb # w.cb
                      ELSE MsgsOf(R.eff, w.cb) = {}
    /\ \A w \in AllWaiters : \A r \in inflight : r.cb # w.cb
    /\ \A r \in inflight : r.pre => r.type = "loadTile"

\* A loadTile message with the fetched bytes is with a worker, and the fetch
\* it came from is over.
C8_Witness ==
    \E r \in inflight :
        /\ r.pre /\ r.type = "loadTile"
        /\ deduped[url[r.t]] = <<>>
        /\ fetches[r.t] = 1

\* C9 (as claimed): a completion with an error, 404 included, on a tile that
\* is not aborted invokes the callback with that error and hands no data to
\* the tile.
C9_EveryErrorPropagates ==
    \A r \in inflight, out \in ErrOutcomes, a \in Actors, refresh \in BOOLEAN :
        ~tile[r.t].aborted =>
            LET R == done([Cur EXCEPT !.inflight = @ \ {r}], r.t, r.cb, out.err, out.data,
                          a, refresh)
            IN  /\ R.eff.calls = <<[cb |-> r.cb, t |-> r.t, err |-> out.err]>>
                /\ R.eff.handed = <<>>
                /\ R.eff.timing = {}

\* C9 (amended): on a tile that is not aborted, a completion with an error
\* other than 404, from the worker or from the inline fetch, invokes the
\* callback with that error, hands no data to the tile and updates neither
\* resource timing nor expiry; a completion with a 404 is not passed on: the
\* callback gets a null error and the tile is handed an empty result, again
\* with no resource-timing or expiry update.
ErrorCompletion(R, t, cb, err) ==
    /\ R.eff.timing = {} /\ R.eff.expiry = {}
    /\ R.eff.calls[1] = [cb |-> cb, t |-> t, err |-> IF err = "e404" THEN "null" ELSE err]
    /\ R.eff.handed = IF err = "e404" THEN <<[t |-> t, data |-> None]>> ELSE <<>>
    /\ err # "e404" => Len(R.eff.calls) = 1 /\ R.eff.msgs = <<>>

C9_ErrorsExcept404 ==
    /\ \A r \in inflight, out \in ErrOutcomes, a \in Actors, refresh \in BOOLEAN :
          ~tile[r.t].aborted =>
              ErrorCompletion(done([Cur EXCEPT !.inflight = @ \ {r}], r.t, r.cb,
                                   out.err, out.data, a, refresh), r.t, r.cb, out.err)
    /\ \A w \in AllWaiters, out \in ErrOutcomes, a \in Actors, refresh \in BOOLEAN :
          ~tile[w.t].aborted =>
              ErrorCompletion(fetched(Cur, w.t, w.cb, out.err, out.data, a, refresh),
                              w.t, w.cb, out.err)

\* A load has ended with an error other than 404: its callback got the error,
\* and the cache marked the tile as failed.
C9_Witness ==
    \E t \in Tiles, c \in CbIds :
        /\ owner[c] = t /\ invoked[c] = <<"eOther">>
        /\ ~tile[t].aborted /\ tile[t].state = "errored"
        /\ tile[t].request = NoRequest

\* C10 (as claimed): the resolved descriptor takes, for every key among
\* tiles, minzoom, maxzoom, attribution, bounds, scheme, tileSize, encoding
\* and zoomoffset, the value of the options when they define the key and the
\* value of the fetched TileJSON otherwise.
ClaimKeys == {"tiles", "minzoom", "maxzoom", "attribution", "bounds", "scheme",
              "tileSize", "encoding", "zoomoffset"}

Fetched == tileJSONRequest = "done" /\ resolved.called /\ resolved.err = "null"
           /\ "url" \in DOMAIN options

\* Key k of res is what obj gives it.
Takes(res, k, obj) == (k \in DOMAIN res) = (k \in DOMAIN obj)
                      /\ (k \in DOMAIN obj => res[k] = obj[k])
Precedence(k) == Takes(resolved.result, k, IF k \in DOMAIN options THEN options ELSE fetchedJSON)

C10_OptionsTakePrecedence == Fetched => \A k \in ClaimKeys : Precedence(k)

\* C10 (amended): for every key among minzoom, maxzoom, attribution, bounds,
\* scheme, tileSize, encoding and zoomoffset the resolved descriptor takes the
\* value of the options when they define the key and the value of the fetched
\* TileJSON otherwise; its tiles are the canonicalized form of the list chosen
\* by the same precedence, and the empty list when neither defines one.
C10_PrecedenceThenCanonical ==
    Fetched =>
        /\ \A k \in ClaimKeys \ {"tiles"} : Precedence(k)
        /\ resolved.result.tiles =
              canonicalizeTileset(IF "tiles" \in DOMAIN options THEN options ELSE fetchedJSON,
                                  options.url)

\* The spec's example: the options give minzoom, the TileJSON minzoom and
\* maxzoom; the descriptor has the options' minzoom and the TileJSON's maxzoom.
C10_Witness ==
    /\ Fetched
    /\ "minzoom" \in DOMAIN options /\ "maxzoom" \notin DOMAIN options
    /\ DOMAIN fetchedJSON = {"minzoom", "maxzoom"}
    /\ resolved.result.minzoom = "options" /\ resolved.result.maxzoom = "tilejson"

\* C11 (as claimed): when the options contain a tile-URL list, whatever else
\* they contain, the loader issues no network fetch, and the callback runs on
\* the animation frame, never during the load call.
C11_TilesMeansNoFetch ==
    "tiles" \in DOMAIN options =>
        /\ tileJSONRequest # "getJSON"
        /\ resolved.called => tileJSONRequest = "done"

\* C11 (amended): when the options contain no url, with or without a tile-URL
\* list, the loader issues no network fetch and does not invoke the callback
\* during the load call; the callback runs on the next animation frame, with
\* the descriptor made from the options alone, unless the handle is cancelled
\* first.  When the options contain a url the loader fetches it, tile-URL
\* list or not.
C11_NoUrlMeansNoFetch ==
    /\ "url" \notin DOMAIN options =>
          /\ tileJSONRequest \in {None, "frame", "cancelled", "done"}
          /\ tileJSONRequest \in {None, "frame", "cancelled"} => ~resolved.called
          /\ tileJSONRequest = "done" => resolved = loaded("null", options, options)
    /\ "url" \in DOMAIN options =>
          /\ tileJSONRequest \in {None, "getJSON", "cancelled", "done"}
          /\ tileJSONRequest \in {None, "getJSON", "cancelled"} => ~resolved.called
    /\ tileJSONRequest = None => loadTileJSON(options) = IF "url" \in DOMAIN options
                                                        THEN "getJSON" ELSE "frame"

\* Options with a tile-URL list and no url: the callback ran on the frame with
\* the list canonicalized, and nothing was fetched.
C11_Witness ==
    /\ "tiles" \in DOMAIN options /\ "url" \notin DOMAIN options
    /\ tileJSONRequest = "done" /\ resolved.called /\ resolved.err = "null"
    /\ resolved.result.tiles = canonicalizeTileset(options, None)
    /\ fetchedJSON = <<>>

\* C12: a setter called while a metadata request is pending cancels that
\* request before it issues the new one; the result of a superseded request
\* is never applied (its callback never runs: no fields merged, no event, no
\* loaded flag), whatever the order of responses and setter calls; at any
\* time the only request that can still complete is the source's current one.
CancelsThenIssues(S, R) ==
    LET p == S.tileJSONRequest
    IN  /\ \A r \in R.requests : r.id # p
        /\ \E i, j \in 1 .. Len(R.log) :
              /\ i < j
              /\ R.log[i] = Log("cancel", p)
              /\ R.log[j] = Log("request", R.tileJSONRequest)

C12_SupersededNeverApplied ==
    /\ source.applied \cap source.superseded = {}
    /\ \A r \in source.requests : r.id = source.tileJSONRequest
    /\ (source.map /\ source.requests # {}) =>
          /\ \A u \in NewUrls : CancelsThenIssues(Src, setUrl(Src, u))
          /\ \A tiles \in NewTiles : CancelsThenIssues(Src, setTiles(Src, tiles))

\* A request was superseded by a setter while pending, and the request issued
\* in its place has been applied.
C12_Witness ==
    \E p \in source.superseded, q \in source.applied :
        /\ p < q
        /\ source.isLoaded
        /\ source.requests = {}

\* C13: after setUrl or setTiles returns, from any state of an added source:
\* clearTiles was called once on each dependent source cache, the source is
\* loading again (loaded() false, 'dataloading' fired) and exactly one
\* metadata request is pending, the source's current one, issued for the new
\* options.
Count(lg, e) == Cardinality({i \in 1 .. Len(lg) : lg[i] = e})

Reloading(R, key, value) ==
    /\ \A c \in SourceCaches : Count(R.log, Log("clearTiles", c)) = 1
    /\ ~R.isLoaded
    /\ Count(R.log, Log("event", "dataloading")) = 1
    /\ R.opts = extend(source.opts, [k \in {key} |-> value])
    /\ R.requests = {[id |-> R.tileJSONRequest,
                      kind |-> IF "url" \in DOMAIN R.opts THEN "getJSON" ELSE "frame",
                      url |-> IF "url" \in DOMAIN R.opts THEN R.opts.url ELSE None]}
    /\ R.tileJSONRequest = source.nextReq

C13_SetterReloads ==
    source.map =>
        /\ \A u \in NewUrls : Reloading(setUrl(Src, u), "url", u)
        /\ \A tiles \in NewTiles : Reloading(setTiles(Src, tiles), "tiles", tiles)

\* A loaded source had its url set: it is loading again, with one request
\* pending for the new url.
C13_Witness ==
    /\ source.sets >= 1 /\ source.applied # {}
    /\ ~source.isLoaded
    /\ \E r \in source.requests : r.url \in NewUrls /\ r.id = source.tileJSONRequest
    /\ Cardinality(source.requests) = 1
    /\ Count(source.log, Log("clearTiles", "cache")) = 1

\* C14: the deduplication table, as loadTile's worker-cold path uses it: a
\* request for a key starts a fetch only when the key has no waiter, so the
\* waiters of a key share one fetch; when the fetch ends, with data or with an
\* error, the entry is discarded and every waiter's callback runs exactly
\* once, all with that one result (with data: one loadTile message carrying
\* it; with an error: one completion of done).
Runs(e, cb) == Cardinality(MsgsOf(e, cb)) + Cardinality({j \in 1 .. Len(e.calls) : e.calls[j].cb = cb})

C14_OneFetchAllWaiters ==
    /\ \A t \in Tiles : \A cb \in NextCbs(t), a \in Actors :
          ((tile[t].actor = None \/ tile[t].state = "expired") /\ ~ready) =>
              LET R == loadTile(Cur, t, cb, a)
              IN  /\ R.eff.fetches = IF deduped[url[t]] = <<>> THEN <<url[t]>> ELSE <<>>
                  /\ Len(R.deduped[url[t]]) = Len(deduped[url[t]]) + 1
    /\ \A u \in Urls, out \in FetchOutcomes, a \in Actors, refresh \in BOOLEAN :
          LET R == deliver([Cur EXCEPT !.deduped[u] = <<>>], deduped[u], out.err, out.data,
                           a, refresh)
          IN  /\ R.deduped[u] = <<>>
              /\ \A i \in 1 .. Len(deduped[u]) :
                    LET w == deduped[u][i]
                    IN  /\ Runs(R.eff, w.cb) = 1
                        /\ out.err = "null" =>
                              \E j \in MsgsOf(R.eff, w.cb) : R.eff.msgs[j].pre
                        /\ out.err # "null" =>
                              \E j \in 1 .. Len(R.eff.calls) :
                                  R.eff.calls[j] =
                                      [cb |-> w.cb, t |-> w.t,
                                       err |-> IF tile[w.t].aborted \/ out.err = "e404"
                                               THEN "null" ELSE out.err]
    /\ \A u \in Urls : \A i, j \in 1 .. Len(deduped[u]) :
          deduped[u][i].cb = deduped[u][j].cb => i = j

\* Two tiles with the same URL wait for one fetch.
C14_Witness ==
    \E u \in Urls :
        /\ Len(deduped[u]) = 2
        /\ deduped[u][1].t # deduped[u][2].t
        /\ fetches[deduped[u][1].t] + fetches[deduped[u][2].t] = 1

\* C15: loadTile on a tile with a bound actor, in a state other than 'expired'
\* and 'loading', sends exactly one reloadTile message, to the tile's actor,
\* and stores its handle as the tile's request; it starts no inline fetch,
\* dispatcher ready or not, and changes neither the tile's actor nor the
\* worker assignment table.
C15_ReloadBranch ==
    \A t \in Tiles : \A cb \in NextCbs(t), a \in Actors, st \in States \ {"expired", "loading"} :
        tile[t].actor # None =>
            LET S == [Cur EXCEPT !.tile[t].state = st]
                R == loadTile(S, t, cb, a)
                m == Msg("reloadTile", t, tile[t].actor, cb, FALSE)
            IN  /\ R.eff = [NoEff EXCEPT !.msgs = <<m>>]
                /\ R.tile = [S.tile EXCEPT ![t].request = Handle("worker", cb)]
                /\ R.inflight = inflight \cup {m}
                /\ R.deduped = deduped
                /\ R.fetches = fetches
                /\ R.tileWorkers = tileWorkers

\* A reloadTile request is in flight and is the tile's request, sent while
\* the dispatcher was not ready, with no fetch waiting.
C15_Witness ==
    \E r \in inflight :
        /\ r.type = "reloadTile" /\ ~ready
        /\ tile[r.t].request = Handle("worker", r.cb)
        /\ r.actor = tile[r.t].actor
        /\ FetchWaiters(r.t) = {}

\* C16 (as claimed): every reloadTile, abortTile and removeTile message for a
\* tile goes to the actor that received the tile's first loadTile message.
Targets(R, t) ==
    {R.eff.msgs[i].actor : i \in {j \in 1 .. Len(R.eff.msgs) :
        R.eff.msgs[j].t = t /\ R.eff.msgs[j].type \in {"reloadTile", "abortTile", "removeTile"}}}

C16_SameWorkerAsFirstLoad ==
    \A t \in Tiles :
        hist.loader[t] # None =>
            /\ Targets(abortTile(Cur, t), t) \subseteq {hist.loader[t]}
            /\ Targets(unloadTile(Cur, t), t) \subseteq {hist.loader[t]}
            /\ \A cb \in CbIds, a \in Actors, st \in States :
                  Targets(loadTile([Cur EXCEPT !.tile[t].state = st], t, cb, a), t)
                      \subseteq {hist.loader[t]}

\* C16 (amended): every reloadTile, abortTile and removeTile message for a
\* tile goes to the actor bound to the tile, which only the dispatch branch of
\* loadTile (no actor, or state 'expired') assigns.  A tile that was never
\* dispatched again as 'expired' keeps the actor that received its first
\* loadTile message; an expired tile dispatched after afterUpdate may be bound
\* to another actor, and its later messages go to that one.
C16_SameWorkerAsBound ==
    \A t \in Tiles :
        /\ (~hist.rebound[t] /\ hist.loader[t] # None) => tile[t].actor = hist.loader[t]
        /\ tile[t].actor # None =>
              /\ abortTile(Cur, t).eff.msgs = <<Msg("abortTile", t, tile[t].actor, NoCb, FALSE)>>
              /\ unloadTile(Cur, t).eff.msgs = <<Msg("removeTile", t, tile[t].actor, NoCb, FALSE)>>
              /\ abortTile(Cur, t).tile[t].actor = tile[t].actor
              /\ unloadTile(Cur, t).tile[t].actor = tile[t].actor
              /\ \A cb \in NextCbs(t), a \in Actors, st \in States \ {"expired"} :
                    LET R == loadTile([Cur EXCEPT !.tile[t].state = st], t, cb, a)
                    IN  /\ Targets(R, t) \subseteq {tile[t].actor}
                        /\ R.tile[t].actor = tile[t].actor
        /\ \A r \in inflight, out \in WorkerOutcomes, a \in Actors, refresh \in BOOLEAN :
              r.t = t =>
                  LET R == done([Cur EXCEPT !.inflight = @ \ {r}], t, r.cb, out.err, out.data,
                                a, refresh)
                  IN  Targets(R, t) \subseteq {tile[t].actor} /\ R.tile[t].actor = tile[t].actor

\* After afterUpdate emptied the table, a tile that was never re-dispatched is
\* reloaded by the actor that first loaded it.
C16_Witness ==
    \E r \in inflight :
        /\ r.type = "reloadTile"
        /\ r.actor = hist.loader[r.t] /\ ~hist.rebound[r.t]
        /\ tileWorkers[url[r.t]] = None

\* C17: between two afterUpdate calls, the tiles that loadTile dispatches for
\* one tile URL are bound to one actor, the table's: the dispatcher is asked
\* for an actor only when the table has none for the URL.  afterUpdate empties
\* the table and changes nothing else: no tile's actor, request or pending
\* reload slot.
C17_BatchAffinity ==
    /\ \A t \in hist.batch : tile[t].actor # None /\ tile[t].actor = tileWorkers[url[t]]
    /\ \A t \in Tiles : \A cb \in NextCbs(t), a \in Actors :
          (tile[t].actor = None \/ tile[t].state = "expired") =>
              LET R == loadTile(Cur, t, cb, a)
                  w == tileWorkers[url[t]]
              IN  /\ R.tile[t].actor = R.tileWorkers[url[t]]
                  /\ R.tileWorkers = [tileWorkers EXCEPT ![url[t]] = IF w # None THEN w ELSE a]
                  /\ w # None => \A b \in Actors : loadTile(Cur, t, cb, b) = R
    /\ LET R == afterUpdate(Cur)
       IN  /\ R.tileWorkers = [u \in Urls |-> None]
           /\ R = [Cur EXCEPT !.tileWorkers = [u \in Urls |-> None]]

\* Two tiles with the same URL were dispatched in one batch and share the
\* actor of the table.
C17_Witness ==
    /\ hist.batch = Tiles
    /\ \A t \in Tiles : url[t] = "u" /\ tile[t].actor = tileWorkers["u"]
    /\ tileWorkers["u"] # None

\* C18: every callback passed to loadTile is invoked at most once, whatever
\* the order of loadTile, abortTile and unloadTile calls and of fetch and
\* worker completions, parked callbacks included; and no completion invokes
\* a callback that was invoked before.
C18_AtMostOnce ==
    /\ \A c \in CbIds : Len(invoked[c]) <= 1
    /\ \A r \in inflight : invoked[r.cb] = <<>>
    /\ \A w \in AllWaiters : invoked[w.cb] = <<>>
    /\ \A t \in Tiles : tile[t].reloadCallback # NoCb => invoked[tile[t].reloadCallback] = <<>>

\* A callback that was parked in the pending reload slot has been invoked,
\* once, and so has the callback of the load it waited for.
C18_Witness ==
    \E c \in parked, d \in CbIds :
        /\ d < c /\ owner[c] = owner[d]
        /\ Len(invoked[c]) = 1 /\ Len(invoked[d]) = 1
        /\ InFlightCbs(owner[c]) = {}

\* C19 (as claimed): whenever a tile's pending reload slot holds a callback, a
\* fetch or a worker request is in flight for the tile.
C19_SlotImpliesInFlight ==
    \A t \in Tiles : tile[t].reloadCallback # NoCb => InFlightCbs(t) # {}

\* C20 (as claimed): whenever a fetch or a worker request is in flight for a
\* tile, the tile's request handle is the handle of that request, so that
\* abortTile leaves nothing in flight for the tile, and nothing is in flight
\* for a tile that has been aborted.
C20_HandleCancelsInFlight ==
    \A t \in Tiles :
        /\ \A r \in WorkerReqs(t) : tile[t].request = Handle("worker", r.cb)
        /\ \A w \in FetchWaiters(t) : tile[t].request = Handle("fetch", w.cb)
        /\ LET R == abortTile(Cur, t)
           IN  /\ \A r \in R.inflight : r.t # t
               /\ \A u \in Urls : \A i \in 1 .. Len(R.deduped[u]) : R.deduped[u][i].t # t
        /\ tile[t].aborted => InFlightCbs(t) = {}

====
